---- MODULE Spec2Model ----
(***************************************************************************)
(* A model of gfs.py: the rate_limited decorator (one lock and one         *)
(* last_time_called cell per wrapped operation, called from several        *)
(* threads) and the inventory parser parse_inv.                            *)
(*                                                                         *)
(* Time is counted in ticks of the perf_counter clock.  The clock is       *)
(* strictly positive: line 60 of gfs.py uses last_time_called == 0.0 as    *)
(* "never called", which presupposes that perf_counter never returns 0.    *)
(***************************************************************************)
EXTENDS Integers, Sequences, FiniteSets, TLC

\* ------------------------------------------------------------------ bounds
MaxTime == 5        \* the clock stops advancing here (unless a sleeper needs it)
MaxStart == 2       \* the clock reads 1..MaxStart when the first call can arrive
MaxInterval == 2    \* min_interval is drawn from 1..MaxInterval
MaxCalls == 3       \* calls of the wrapped operation per behaviour
MaxLines == 3       \* lines of an inventory text
MaxOps == 2         \* method calls on one NCDCForecast

Threads == {"t1", "t2"}
MainThread == "t1"
NoThread == "none"
Modes == {"wait", "kill", "other"}

VARIABLES
    now,               \* time.perf_counter()
    mode,              \* rate_limited's mode argument
    delay_first_call,  \* rate_limited's delay_first_call argument
    min_interval,      \* 1.0 / max_per_second
    lock,              \* the thread that acquired threading.Lock(), or NoThread
    last_time_called,  \* last_time_called[0]
    pc,                \* per thread: where it is inside rate_limited_function
    wake,              \* per thread: the clock value its time.sleep ends at
    res,               \* per thread: what its latest call returned
    el,                \* per thread: elapsed as computed at line 46
    seen,              \* per thread: last_time_called[0] as read at line 46
    slept,             \* per thread: the latest call went through time.sleep
    first,             \* per thread: the latest call was the first past the lock
    ncalls,            \* calls begun so far
    nret,              \* calls that have returned so far
    firstCall,         \* the clock when the first call began (0: none yet)
    lastStart,         \* the clock when func was last invoked (0: never)
    raised,            \* some invocation of func has raised
    entered,           \* some call has got past lock.acquire()
    inv_lines,         \* the lines the inventory text was written from
    inv_raw,           \* parse_inv's argument, as a sequence of characters
    pstate,            \* "none", "ready" (parse_inv not yet called) or "done"
    result,            \* what parse_inv returned or raised
    asof,              \* NCDCForecast._asof, a datetime
    hrs_out,           \* NCDCForecast._hrs_out
    deg,               \* NCDCForecast._deg, in tenths of a degree
    _inv,              \* NCDCForecast._inv
    _grid,             \* NCDCForecast._grid
    op,                \* the member of NCDCForecast used last
    req,               \* the vars argument of the latest fetch
    net,               \* what the transport does for the latest call
    out,               \* what the latest call returned or raised
    issued,            \* transfers the latest call started
    nops               \* calls made on the instance

rlvars == <<now, mode, delay_first_call, min_interval, lock, last_time_called,
            pc, wake, res, el, seen, slept, first, ncalls, nret, firstCall,
            lastStart, raised, entered>>

pvars == <<inv_lines, inv_raw, pstate, result>>

fvars == <<asof, hrs_out, deg, _inv, _grid, op, req, net, out, issued,
           nops>>

vars == <<rlvars, pvars, fvars>>

\* ------------------------------------------------------- rate_limited
\* line 46: elapsed = time.perf_counter() - last_time_called[0]
Elapsed(t_now, last) == t_now - last

\* line 47: left_to_wait = min_interval - elapsed
LeftToWait(mi, elapsed) == mi - elapsed

\* lines 48-68: the branch rate_limited_function takes.
\*   "run"  : return run_func()
\*   "sleep": time.sleep(left_to_wait); return run_func()
\*   "kill" : lock.release(); return
\*   "fall" : no branch matches, the function falls off its end
Decision(dfc, md, last, elapsed, mi) ==
    LET left_to_wait == LeftToWait(mi, elapsed) IN
    IF dfc
    THEN IF left_to_wait > 0
         THEN CASE md = "wait" -> "sleep"
                [] md = "kill" -> "kill"
                [] OTHER       -> "fall"
         ELSE "run"
    ELSE IF last = 0 \/ elapsed > mi
         THEN "run"
         ELSE IF left_to_wait > 0
              THEN CASE md = "wait" -> "sleep"
                     [] md = "kill" -> "kill"
                     [] OTHER       -> "fall"
              ELSE "fall"

\* A variant that releases the lock before time.sleep.
LockAfterDecisionSleepUnlocked(t, d) ==
    IF d \in {"kill", "sleep"} THEN NoThread ELSE t

\* Who holds the lock once the branch is taken: only the kill branch
\* (lines 54, 67) releases it; time.sleep (lines 51, 64) runs with it held
\* and run_func releases it later (line 41).
LockAfterDecision(t, d) ==
    IF d = "kill" THEN NoThread ELSE t

RLInit ==
    /\ now \in 1..MaxStart
    /\ mode \in Modes
    /\ delay_first_call \in BOOLEAN
    /\ min_interval \in 1..MaxInterval
    /\ lock = NoThread
    /\ last_time_called = 0
    /\ pc = [t \in Threads |-> "idle"]
    /\ wake = [t \in Threads |-> 0]
    /\ res = [t \in Threads |-> "pending"]
    /\ el = [t \in Threads |-> 0]
    /\ seen = [t \in Threads |-> 0]
    /\ slept = [t \in Threads |-> FALSE]
    /\ first = [t \in Threads |-> FALSE]
    /\ ncalls = 0
    /\ nret = 0
    /\ firstCall = 0
    /\ lastStart = 0
    /\ raised = FALSE
    /\ entered = FALSE

\* The clock advances.
Tick ==
    /\ \/ now < MaxTime
       \/ \E t \in Threads : pc[t] = "sleep" /\ wake[t] > now
    /\ now' = now + 1
    /\ UNCHANGED <<mode, delay_first_call, min_interval, lock, last_time_called,
                   pc, wake, res, el, seen, slept, first, ncalls, nret,
                   firstCall, lastStart, raised,
                   entered, pvars, fvars>>

\* A thread calls rate_limited_function (line 39).
Call(t) ==
    /\ pc[t] \in {"idle", "returned"}
    /\ ncalls < MaxCalls
    /\ pc' = [pc EXCEPT ![t] = "acquire"]
    /\ res' = [res EXCEPT ![t] = "pending"]
    /\ el' = [el EXCEPT ![t] = 0]
    /\ seen' = [seen EXCEPT ![t] = 0]
    /\ slept' = [slept EXCEPT ![t] = FALSE]
    /\ first' = [first EXCEPT ![t] = FALSE]
    /\ ncalls' = ncalls + 1
    /\ firstCall' = IF ncalls = 0 THEN now ELSE firstCall
    /\ UNCHANGED <<now, mode, delay_first_call, min_interval, lock,
                   last_time_called, wake, nret, lastStart, raised,
                   entered, pvars, fvars>>

\* line 45: lock.acquire() blocks until the lock is free.
Acquire(t) ==
    /\ pc[t] = "acquire"
    /\ lock = NoThread
    /\ lock' = t
    /\ pc' = [pc EXCEPT ![t] = "decide"]
    /\ first' = [first EXCEPT ![t] = ~entered]
    /\ entered' = TRUE
    /\ UNCHANGED <<now, mode, delay_first_call, min_interval, last_time_called,
                   wake, res, el, seen, slept, ncalls, nret, firstCall,
                   lastStart, raised, pvars, fvars>>

\* lines 46-68: read the clock and last_time_called[0], take a branch.
Decide(t) ==
    /\ pc[t] = "decide"
    /\ LET elapsed == Elapsed(now, last_time_called)
           d == Decision(delay_first_call, mode, last_time_called, elapsed,
                         min_interval)
       IN /\ el' = [el EXCEPT ![t] = elapsed]
          /\ seen' = [seen EXCEPT ![t] = last_time_called]
          /\ lock' = LockAfterDecision(t, d)
          /\ pc' = [pc EXCEPT ![t] =
                       CASE d = "run"   -> "release"
                         [] d = "sleep" -> "sleep"
                         [] OTHER       -> "returned"]
          /\ wake' = [wake EXCEPT ![t] =
                       IF d = "sleep"
                       THEN now + LeftToWait(min_interval, elapsed)
                       ELSE 0]
          /\ slept' = [slept EXCEPT ![t] = (d = "sleep")]
          /\ res' = [res EXCEPT ![t] =
                       IF d \in {"kill", "fall"} THEN "none" ELSE "pending"]
          /\ nret' = IF d \in {"kill", "fall"} THEN nret + 1 ELSE nret
    /\ UNCHANGED <<now, mode, delay_first_call, min_interval, last_time_called,
                   first, ncalls, firstCall, lastStart, raised,
                   entered, pvars, fvars>>

\* lines 51, 64: time.sleep(left_to_wait) returns once the time has passed.
Wake(t) ==
    /\ pc[t] = "sleep"
    /\ now >= wake[t]
    /\ pc' = [pc EXCEPT ![t] = "release"]
    /\ wake' = [wake EXCEPT ![t] = 0]
    /\ UNCHANGED <<now, mode, delay_first_call, min_interval, lock,
                   last_time_called, res, el, seen, slept, first, ncalls, nret,
                   firstCall, lastStart, raised,
                   entered, pvars, fvars>>

\* A variant of run_func that invokes func without releasing the lock.
RunFuncKeepLock(t) ==
    /\ pc[t] = "release"
    /\ pc' = [pc EXCEPT ![t] = "running"]
    /\ lastStart' = now
    /\ UNCHANGED <<now, mode, delay_first_call, min_interval, lock,
                   last_time_called, wake, res, el, seen, slept, first, ncalls,
                   nret, firstCall, raised,
                   entered, pvars, fvars>>

\* lines 41-42: run_func releases the lock and invokes func.
RunFunc(t) ==
    /\ pc[t] = "release"
    /\ lock' = NoThread
    /\ pc' = [pc EXCEPT ![t] = "running"]
    /\ lastStart' = now
    /\ UNCHANGED <<now, mode, delay_first_call, min_interval, last_time_called,
                   wake, res, el, seen, slept, first, ncalls, nret, firstCall,
                   raised,
                   entered, pvars, fvars>>

\* A variant that stores the time func was invoked at, not its completion.
FuncReturnStampStart(t) ==
    /\ pc[t] = "running"
    /\ last_time_called' = lastStart
    /\ pc' = [pc EXCEPT ![t] = "returned"]
    /\ res' = [res EXCEPT ![t] = "ok"]
    /\ nret' = nret + 1
    /\ UNCHANGED <<now, mode, delay_first_call, min_interval, lock, wake, el,
                   seen, slept, first, ncalls, firstCall, lastStart, raised,
                   entered, pvars, fvars>>

\* lines 42-44: func returns; the completion time is stored and the result
\* handed back.
FuncReturn(t) ==
    /\ pc[t] = "running"
    /\ last_time_called' = now
    /\ pc' = [pc EXCEPT ![t] = "returned"]
    /\ res' = [res EXCEPT ![t] = "ok"]
    /\ nret' = nret + 1
    /\ UNCHANGED <<now, mode, delay_first_call, min_interval, lock, wake, el,
                   seen, slept, first, ncalls, firstCall, lastStart, raised,
                   entered, pvars, fvars>>

\* A variant that stores the time although func raised (as a finally would).
FuncRaiseStamped(t) ==
    /\ pc[t] = "running"
    /\ last_time_called' = now
    /\ pc' = [pc EXCEPT ![t] = "returned"]
    /\ res' = [res EXCEPT ![t] = "exc"]
    /\ nret' = nret + 1
    /\ raised' = TRUE
    /\ UNCHANGED <<now, mode, delay_first_call, min_interval, lock, wake, el,
                   seen, slept, first, ncalls, firstCall, lastStart,
                   entered, pvars, fvars>>

\* line 42: func raises; the exception leaves run_func and
\* rate_limited_function, line 43 is not reached.
FuncRaise(t) ==
    /\ pc[t] = "running"
    /\ pc' = [pc EXCEPT ![t] = "returned"]
    /\ res' = [res EXCEPT ![t] = "exc"]
    /\ nret' = nret + 1
    /\ raised' = TRUE
    /\ UNCHANGED <<now, mode, delay_first_call, min_interval, lock,
                   last_time_called, wake, el, seen, slept, first, ncalls,
                   firstCall, lastStart,
                   entered, pvars, fvars>>

\* ------------------------------------------------------------ parse_inv
\* Text is a sequence of one-character strings.
DigitChars == <<"0", "1", "2", "3", "4", "5", "6", "7", "8", "9">>

IsDigit(c) == \E d \in 1..10 : DigitChars[d] = c

DigitVal(c) == (CHOOSE d \in 1..10 : DigitChars[d] = c) - 1

RECURSIVE StrNat(_)
StrNat(n) ==
    IF n < 10 THEN <<DigitChars[n + 1]>>
    ELSE StrNat(n \div 10) \o <<DigitChars[(n % 10) + 1]>>

\* str(n) of an int
str(n) == IF n < 0 THEN <<"-">> \o StrNat(0 - n) ELSE StrNat(n)

\* the digits int() reads after an optional sign
IntBody(s) == IF s # <<>> /\ s[1] \in {"-", "+"} THEN Tail(s) ELSE s

\* int(s) does not raise ValueError (decimal digits after an optional sign;
\* surrounding blanks and underscores are not drawn as inputs)
IsInt(s) == IntBody(s) # <<>> /\ \A i \in 1..Len(IntBody(s)) : IsDigit(IntBody(s)[i])

RECURSIVE NatOf(_)
NatOf(ds) ==
    IF ds = <<>> THEN 0
    ELSE 10 * NatOf(SubSeq(ds, 1, Len(ds) - 1)) + DigitVal(ds[Len(ds)])

\* int(s)
int(s) == IF s[1] = "-" THEN 0 - NatOf(IntBody(s)) ELSE NatOf(IntBody(s))

\* str.split(sep) for a one-character sep: never an empty list, "" gives [""]
RECURSIVE Split(_, _)
Split(s, sep) ==
    IF \E i \in 1..Len(s) : s[i] = sep
    THEN LET i == CHOOSE j \in 1..Len(s) :
                     s[j] = sep /\ \A k \in 1..(j - 1) : s[k] # sep
         IN <<SubSeq(s, 1, i - 1)>> \o Split(SubSeq(s, i + 1, Len(s)), sep)
    ELSE <<s>>

\* lines 98-99: split into lines, each line into fields
SplitInv(raw) ==
    LET lines == Split(raw, "\n") IN [i \in 1..Len(lines) |-> Split(lines[i], ":")]

Raise(e) == [ok |-> FALSE, err |-> e, inv |-> {}]

\* inv[name] = brange on a dict kept as a set of <<name, brange>> pairs
DictSet(inv, name, brange) ==
    {p \in inv : p[1] # name} \cup {<<name, brange>>}

\* lines 103-111: the loop of parse_inv from Python index i on (inv_str[i]
\* of the source is inv_str[i + 1] here, s[3] is s[4], s[1] is s[2]).
RECURSIVE ParseLoop(_, _, _)
ParseLoop(inv_str, i, inv) ==
    IF i >= Len(inv_str) THEN [ok |-> TRUE, err |-> "", inv |-> inv]
    ELSE LET s == inv_str[i + 1] IN
         \* line 104: len(s) is 0
         IF Len(s) = 0 THEN ParseLoop(inv_str, i + 1, inv)
         \* line 106: s[3]
         ELSE IF Len(s) < 4 THEN Raise("IndexError")
         \* line 108: i != len(inv_str)
         ELSE IF i # Len(inv_str)
              \* line 109: inv_str[i+1], then [1], then int()
              THEN IF i + 1 >= Len(inv_str) THEN Raise("IndexError")
                   ELSE IF Len(inv_str[i + 2]) < 2 THEN Raise("IndexError")
                   ELSE IF ~IsInt(inv_str[i + 2][2]) THEN Raise("ValueError")
                   ELSE ParseLoop(inv_str, i + 1,
                            DictSet(inv, s[4],
                                    s[2] \o <<"-">>
                                         \o str(int(inv_str[i + 2][2]) - 1)))
              ELSE ParseLoop(inv_str, i + 1,
                             DictSet(inv, s[4], s[2] \o <<"-">>))

\* lines 90-111
parse_inv(raw) == ParseLoop(SplitInv(raw), 0, {})

\* The inventory texts: lines written as the provider writes them (record
\* number, byte offset, date, variable name, level), empty lines, a line
\* with too few fields and a line whose offset is no number.
Offsets == {0, 10, 100}
Names == {<<"A">>, <<"B">>}

LineKinds ==
    [kind : {"wf"}, off : Offsets, name : Names]
    \cup [kind : {"empty", "short", "nan"}, off : {0}, name : {<<"A">>}]

RECURSIVE Join(_, _)
Join(parts, sep) ==
    IF parts = <<>> THEN <<>>
    ELSE IF Len(parts) = 1 THEN parts[1]
    ELSE parts[1] \o <<sep>> \o Join(Tail(parts), sep)

LineText(l) ==
    CASE l.kind = "wf" ->
            Join(<<<<"1">>, str(l.off), <<"d">>, l.name, <<"s">>>>, ":")
      [] l.kind = "empty" -> <<>>
      [] l.kind = "short" -> Join(<<<<"1">>, <<"7">>>>, ":")
      [] l.kind = "nan" ->
            Join(<<<<"1">>, <<"z">>, <<"d">>, l.name, <<"s">>>>, ":")

InvText(lines, trailing) ==
    Join([i \in 1..Len(lines) |-> LineText(lines[i])], "\n")
       \o (IF trailing THEN <<"\n">> ELSE <<>>)

\* --------------------------------------------------------- NCDCForecast
\* Python values: a type tag, the text of a str, bytes, int or datetime as
\* a sequence of pieces, and the items of a dict.
PyNone == [type |-> "None", v |-> <<>>, d |-> {}]
PyStr(chars) == [type |-> "str", v |-> chars, d |-> {}]
PyBytes(chars) == [type |-> "bytes", v |-> chars, d |-> {}]
PyInt(n) == [type |-> "int", v |-> str(n), d |-> {}]
PyDict(items) == [type |-> "dict", v |-> <<>>, d |-> items]

\* A call returns a value or raises.
Ret(val) == [ok |-> TRUE, err |-> "", val |-> val]
RaiseExc(e) == [ok |-> FALSE, err |-> e, val |-> PyNone]

RECURSIVE Pad(_, _)
\* zero-fill on the left up to a width
Pad(chars, width) ==
    IF Len(chars) >= width THEN chars ELSE Pad(<<"0">> \o chars, width)

\* datetime.strftime for the directives the urls use
strftime(dt, fmt) ==
    CASE fmt = "%Y%m"   -> Pad(str(dt.year), 4) \o Pad(str(dt.month), 2)
      [] fmt = "%Y%m%d" -> Pad(str(dt.year), 4) \o Pad(str(dt.month), 2)
                              \o Pad(str(dt.day), 2)
      [] fmt = "%H"     -> Pad(str(dt.hour), 2)
      [] OTHER          -> <<fmt>>

PyDatetime(dt) == [type |-> "datetime", v |-> strftime(dt, "%Y%m%d"), d |-> {}]

\* "{:0>3d}".format(x): an int is zero-filled to 3 digits; a datetime hands
\* the format spec to strftime, which copies it as it holds no directive.
Format03d(x) ==
    IF x.type = "int" THEN Ret(PyStr(Pad(x.v, 3)))
    ELSE IF x.type = "datetime" THEN Ret(PyStr(<<"0>3d">>))
    ELSE RaiseExc("ValueError")

\* a + b: only str + str arises with a str on the left
PyAdd(a, b) ==
    IF a.type = "str" /\ b.type = "str" THEN Ret(PyStr(a.v \o b.v))
    ELSE RaiseExc("TypeError")

\* e1 + e2 + ... + en, evaluated left to right: an operand that raises, or
\* an addition that raises, ends the evaluation.
RECURSIVE AddChain(_, _, _)
AddChain(acc, parts, i) ==
    IF ~acc.ok \/ i > Len(parts) THEN acc
    ELSE IF ~parts[i].ok THEN parts[i]
    ELSE AddChain(PyAdd(acc.val, parts[i].val), parts, i + 1)

\* The instance, as the methods see it.
self == [asof |-> asof, hrs_out |-> hrs_out, deg |-> deg, _inv |-> _inv,
         _grid |-> _grid]

\* lines 179-182, the resolution in tenths of a degree
grids == [d \in {10, 5} |-> IF d = 10 THEN 3 ELSE 4]

\* A variant that answers grid 3 for a resolution the table does not hold.
gridOrDefault(obj) ==
    IF obj._grid # PyNone THEN Ret(obj._grid)
    ELSE IF obj.deg \in DOMAIN grids THEN Ret(PyInt(grids[obj.deg]))
    ELSE Ret(PyInt(3))

\* lines 171-183: the grid property
grid(obj) ==
    IF obj._grid # PyNone THEN Ret(obj._grid)
    ELSE IF obj.deg \in DOMAIN grids THEN Ret(PyInt(grids[obj.deg]))
    ELSE RaiseExc("KeyError")

Lit(text) == Ret(PyStr(<<text>>))

\* lines 188 and 194: the operands of the concatenation, in order
UrlParts(obj, ext) ==
    << Lit("ftp://nomads.ncdc.noaa.gov/GFS/Grid"), grid(obj), Lit("/"),
       Ret(PyStr(strftime(obj.asof, "%Y%m"))), Lit("/"),
       Ret(PyStr(strftime(obj.asof, "%Y%m%d"))), Lit("/gfs_"), grid(obj),
       Lit("_"), Ret(PyStr(strftime(obj.asof, "%Y%m%d"))), Lit("_"),
       Ret(PyStr(strftime(obj.asof, "%H"))), Lit("00"), Lit("_"),
       Format03d(PyDatetime(obj.asof)), Lit(ext) >>

\* lines 185-188
inv_url(obj) == AddChain(UrlParts(obj, ".inv")[1], UrlParts(obj, ".inv"), 2)

\* lines 191-194
grib_url(obj) == AddChain(UrlParts(obj, ".grb2")[1], UrlParts(obj, ".grb2"), 2)

\* What the provider serves as the inventory file.
ProviderLines ==
    << [kind |-> "wf", off |-> 0, name |-> <<"A">>],
       [kind |-> "wf", off |-> 100, name |-> <<"B">>] >>

ProviderNames == {ProviderLines[i].name : i \in 1..Len(ProviderLines)}

\* lines 114-132: one blocking transfer; c.perform() raises when the
\* transport fails, else the bytes received are returned.
fetch_url(url, range, transport) ==
    IF transport = "fail" THEN RaiseExc("pycurl.error")
    ELSE Ret(PyBytes(InvText(ProviderLines, TRUE)))

\* lines 73-79: takes one positional argument, runs fetch_url through the
\* rate limiter (its pacing is the part modelled above) and returns
\* nothing.
_fetch_ncdc_url(args, transport) ==
    IF Len(args) # 1 THEN RaiseExc("TypeError")
    ELSE LET r == fetch_url(args[1], PyNone, transport) IN
         IF ~r.ok THEN r ELSE Ret(PyNone)

\* parse_inv on a Python value: inv_raw.decode needs bytes (line 97)
parse_inv_of(val) ==
    IF val.type # "bytes" THEN RaiseExc("AttributeError")
    ELSE LET p == parse_inv(val.v) IN
         IF p.ok THEN Ret(PyDict(p.inv)) ELSE RaiseExc(p.err)

\* What a call leaves: its outcome, self._inv and the transfers started.
Effect(o, c, n) == [out |-> o, cache |-> c, issued |-> n]

\* lines 196-203: the inv property
inv(obj, transport) ==
    IF obj._inv # PyNone THEN Effect(Ret(obj._inv), obj._inv, 0)
    ELSE LET u == inv_url(obj) IN
         IF ~u.ok THEN Effect(u, obj._inv, 0)
         ELSE LET r == _fetch_ncdc_url(<<u.val>>, transport) IN
              IF ~r.ok THEN Effect(r, obj._inv, 1)
              ELSE LET p == parse_inv_of(r.val) IN
                   IF ~p.ok THEN Effect(p, obj._inv, 1)
                   ELSE Effect(p, p.val, 1)

\* lines 205-226: fetch.  Line 220 calls the value of the inv property; that
\* value is a dict whenever the property returns, and a dict is not
\* callable, so lines 221-226 are never reached.
fetch(obj, vars_arg, transport) ==
    LET i == inv(obj, transport) IN
    IF ~i.out.ok THEN i
    ELSE Effect(RaiseExc("TypeError"), i.cache, i.issued)

\* The instances: as-of times, hours out, resolutions (tenths of a degree).
AsOfs ==
    { [year |-> 2024, month |-> 3, day |-> 1, hour |-> 6],
      [year |-> 2024, month |-> 11, day |-> 15, hour |-> 18] }
HoursOut == {6, 12, 120}
Degs == {5, 10, 20}

\* The vars argument of fetch: omitted, or a list of names.
NoVars == [given |-> FALSE, names |-> <<>>]
VarsChoices ==
    {NoVars} \cup
    [given : {TRUE}, names : {<<<<"A">>>>, <<<<"A">>, <<"B">>>>, <<<<"C">>>>}]

Transports == {"ok", "fail"}

\* lines 139-157: __init__
ForecastInit ==
    /\ asof \in AsOfs
    /\ hrs_out \in HoursOut
    /\ deg \in Degs
    /\ _inv = PyNone
    /\ _grid = PyNone
    /\ op = "none"
    /\ req = NoVars
    /\ net = "ok"
    /\ out = Ret(PyNone)
    /\ issued = 0
    /\ nops = 0

\* No NCDCForecast is in use.
ForecastIdle ==
    /\ ForecastInit
    /\ asof = [year |-> 2024, month |-> 3, day |-> 1, hour |-> 6]
    /\ hrs_out = 12
    /\ deg = 5

\* The grid property is read.
GetGrid ==
    /\ nops < MaxOps
    /\ op' = "grid"
    /\ out' = grid(self)
    /\ issued' = 0
    /\ nops' = nops + 1
    /\ UNCHANGED <<rlvars, pvars, asof, hrs_out, deg, _inv, _grid, req, net>>

\* inv_url() is called.
CallInvUrl ==
    /\ nops < MaxOps
    /\ op' = "inv_url"
    /\ out' = inv_url(self)
    /\ issued' = 0
    /\ nops' = nops + 1
    /\ UNCHANGED <<rlvars, pvars, asof, hrs_out, deg, _inv, _grid, req, net>>

\* grib_url() is called.
CallGribUrl ==
    /\ nops < MaxOps
    /\ op' = "grib_url"
    /\ out' = grib_url(self)
    /\ issued' = 0
    /\ nops' = nops + 1
    /\ UNCHANGED <<rlvars, pvars, asof, hrs_out, deg, _inv, _grid, req, net>>

\* The inv property is read, with the transport working or failing.
GetInv ==
    /\ nops < MaxOps
    /\ \E transport \in Transports :
          LET e == inv(self, transport) IN
          /\ net' = transport
          /\ out' = e.out
          /\ _inv' = e.cache
          /\ issued' = e.issued
    /\ op' = "inv"
    /\ nops' = nops + 1
    /\ UNCHANGED <<rlvars, pvars, asof, hrs_out, deg, _grid, req>>

\* fetch(vars) is called, with the transport working or failing.
CallFetch ==
    /\ nops < MaxOps
    /\ \E transport \in Transports : \E vars_arg \in VarsChoices :
          LET e == fetch(self, vars_arg, transport) IN
          /\ net' = transport
          /\ req' = vars_arg
          /\ out' = e.out
          /\ _inv' = e.cache
          /\ issued' = e.issued
    /\ op' = "fetch"
    /\ nops' = nops + 1
    /\ UNCHANGED <<rlvars, pvars, asof, hrs_out, deg, _grid>>

NoResult == [ok |-> FALSE, err |-> "", inv |-> {}]

ParseIdle ==
    /\ inv_lines = <<>>
    /\ inv_raw = <<>>
    /\ pstate = "none"
    /\ result = NoResult

Init == RLInit /\ ParseIdle /\ ForecastIdle

\* An NCDCForecast has been constructed; _fetch_ncdc_url is wrapped with
\* rate_limited(ncdc_rate), mode 'wait', delay_first_call false (lines 19,
\* 22, 73).
InitForecast ==
    /\ RLInit
    /\ now = 1 /\ mode = "wait" /\ ~delay_first_call /\ min_interval = 2
    /\ ParseIdle
    /\ ForecastInit

\* parse_inv is about to be called on an inventory text.
InitParse ==
    /\ RLInit
    /\ now = 1 /\ mode = "wait" /\ ~delay_first_call /\ min_interval = 1
    /\ \E n \in 0..MaxLines : inv_lines \in [1..n -> LineKinds]
    /\ \E trailing \in BOOLEAN : inv_raw = InvText(inv_lines, trailing)
    /\ pstate = "ready"
    /\ result = NoResult
    /\ ForecastIdle

\* parse_inv(inv_raw) runs to its return or its exception.
Parse ==
    /\ pstate = "ready"
    /\ result' = parse_inv(inv_raw)
    /\ pstate' = "done"
    /\ UNCHANGED <<rlvars, inv_lines, inv_raw, fvars>>

Next ==
    \/ Tick
    \/ \E t \in Threads : Call(t)
    \/ \E t \in Threads : Acquire(t)
    \/ \E t \in Threads : Decide(t)
    \/ \E t \in Threads : Wake(t)
    \/ \E t \in Threads : RunFunc(t)
    \/ \E t \in Threads : FuncReturn(t)
    \/ \E t \in Threads : FuncRaise(t)

\* Any number of threads call the wrapped operation.
Spec == Init /\ [][Next]_vars

NextSeq ==
    \/ Tick
    \/ Call(MainThread)
    \/ Acquire(MainThread)
    \/ Decide(MainThread)
    \/ Wake(MainThread)
    \/ RunFunc(MainThread)
    \/ FuncReturn(MainThread)
    \/ FuncRaise(MainThread)

\* One thread issues its calls back to back.
SpecSeq == Init /\ [][NextSeq]_vars

NextParse == Parse

NextForecast ==
    \/ GetGrid
    \/ CallInvUrl
    \/ CallGribUrl
    \/ GetInv
    \/ CallFetch

\* parse_inv applied to each inventory text.
SpecParse == InitParse /\ [][NextParse]_vars

\* The members of one NCDCForecast used one after the other.
SpecForecast == InitForecast /\ [][NextForecast]_vars

\* ------------------------------------------------------------- claims
\* C1: under mode 'wait', with any number of threads, any two invocations of
\* the underlying operation start at least min_interval apart.
C1_GlobalPacing ==
    [][\A t \in Threads :
          (mode = "wait" /\ pc[t] = "release" /\ pc'[t] = "running"
             /\ lastStart # 0)
          => now - lastStart >= min_interval]_vars

\* C2: under mode 'wait', one thread's k back-to-back calls all return (a
\* call is never left waiting for a lock nobody will release) and the k-th
\* return is at least (k-1) * min_interval after the first call began.
C2_BackToBackCallsReturn ==
    mode = "wait" =>
       /\ pc[MainThread] = "acquire" => lock = NoThread
       /\ (pc[MainThread] = "returned" /\ ~raised)
             => now - firstCall >= (nret - 1) * min_interval

\* C3: with delay_first_call false, under either policy, a call that is the
\* first-ever call or finds elapsed >= min_interval invokes the operation
\* without sleeping and is not dropped.
C3_ImmediateWhenDue ==
    \A t \in Threads :
       (~delay_first_call /\ mode \in {"wait", "kill"} /\ pc[t] = "returned"
          /\ (first[t] \/ el[t] >= min_interval))
       => (res[t] \in {"ok", "exc"} /\ ~slept[t])

\* C4: under mode 'wait' no call returns the no-result value: every call
\* that returns has invoked the underlying operation.
C4_WaitNeverDrops ==
    mode = "wait" => \A t \in Threads : pc[t] = "returned" => res[t] # "none"

\* C5: under mode 'kill', for one thread: a call finding elapsed <
\* min_interval since the last completion returns the no-result value with
\* last_time_called unchanged and the lock released; a call finding elapsed
\* >= min_interval invokes the operation.
C5_KillDropsOnlyEarlyCalls ==
    (mode = "kill" /\ pc[MainThread] = "returned" /\ seen[MainThread] # 0)
    => /\ el[MainThread] < min_interval
            => /\ res[MainThread] = "none"
               /\ last_time_called = seen[MainThread]
               /\ lock = NoThread
       /\ el[MainThread] >= min_interval
            => res[MainThread] \in {"ok", "exc"}

C7_NoLockWhileRunning ==
    \A t \in Threads :
       /\ pc[t] = "decide" => lock = t
       /\ pc[t] = "running" => lock # t

\* C7 witness: a second caller holds the lock and makes its scheduling
\* decision while the first caller's operation is still in flight.
C7_Witness ==
    \E t \in Threads : \E u \in Threads \ {t} :
       pc[t] = "running" /\ pc[u] = "decide" /\ lock = u

\* C8: when the underlying operation raises, the caller gets that failure,
\* last_time_called keeps its value, and the step leaves the lock as it
\* was, not held by the raising thread.
C8_RaisePropagates ==
    [][\A t \in Threads :
          (pc[t] = "running" /\ pc'[t] = "returned" /\ res'[t] = "exc")
          => /\ last_time_called' = last_time_called
             /\ lock' = lock
             /\ lock' # t]_vars

\* C8 witness: after a failure of the operation a later call has gone
\* through the lock and is executing the operation again.
C8_Witness ==
    \E t \in Threads : \E u \in Threads :
       /\ res[t] = "exc" /\ pc[t] = "returned"
       /\ raised /\ last_time_called = 0
       /\ pc[u] = "running"

\* The input is N >= 1 well-formed lines with increasing offsets and
\* distinct names.
WellFormedIncreasing(lines) ==
    /\ Len(lines) >= 1
    /\ \A i \in 1..Len(lines) : lines[i].kind = "wf"
    /\ \A i \in 1..Len(lines) : \A j \in 1..Len(lines) :
          i < j => lines[i].off < lines[j].off /\ lines[i].name # lines[j].name

\* The ranges C9 states: own offset to the next line's offset minus one,
\* open-ended for the last line.
ExpectedInv(lines) ==
    {<<lines[i].name,
       str(lines[i].off) \o <<"-">>
          \o (IF i < Len(lines) THEN str(lines[i + 1].off - 1) ELSE <<>>)>> :
        i \in 1..Len(lines)}

\* C9: for N >= 1 well-formed lines with increasing offsets, with or
\* without a trailing newline, parse_inv succeeds and maps every name to the
\* range from its offset to the next offset minus one, the last one open.
C9_ParsesWellFormed ==
    (pstate = "done" /\ WellFormedIncreasing(inv_lines))
    => (result.ok /\ result.inv = ExpectedInv(inv_lines))

\* The lines of the input that are not empty.
NonEmptyLines(lines) == SelectSeq(lines, LAMBDA l : l.kind # "empty")

\* C10: the outcome of parse_inv on a text is the outcome on the same text
\* with its empty lines (a trailing newline's empty last line included)
\* taken out: the same success or failure and the same entries.
C10_SkipsEmptyLines ==
    pstate = "done"
    => result = parse_inv(InvText(NonEmptyLines(inv_lines), FALSE))

\* C17: whenever a call has returned to its caller, with a result or with
\* the no-result value, the calling thread does not hold the lock.
C17_ReturnedWithoutLock ==
    \A t \in Threads : pc[t] = "returned" => lock # t

\* C18: last_time_called changes only in a step in which an invocation of
\* the underlying operation completes normally, and such a step writes the
\* clock value of the completion.
C18_WrittenAtCompletion ==
    [][/\ \A t \in Threads :
             (pc[t] = "running" /\ pc'[t] = "returned" /\ res'[t] = "ok")
             => last_time_called' = now
       /\ last_time_called' # last_time_called
             => \E t \in Threads :
                   pc[t] = "running" /\ pc'[t] = "returned" /\ res'[t] = "ok"]_vars

\* C18 witness: an invocation that took time has completed and the stored
\* value is later than its start; a later call was dropped and left it.
C18_Witness ==
    \E t \in Threads :
       /\ pc[t] = "returned" /\ res[t] = "none"
       /\ lastStart # 0 /\ last_time_called > lastStart
       /\ last_time_called = seen[t]

Supported == deg \in {5, 10}

\* The names a fetch is asked for: its vars argument, or every name of
\* the inventory when vars is omitted.
Requested == IF req.given THEN {req.names[i] : i \in 1..Len(req.names)}
             ELSE ProviderNames

\* C11: on an instance with an empty cache, reading inv with a working
\* transport returns the parsed inventory (a dict), got by one fetch, and
\* stores it in _inv; a read that finds _inv set starts no transfer.
C11_InvFetchedAndCached ==
    (op = "inv" /\ net = "ok" /\ Supported)
    => /\ out.ok /\ out.val.type = "dict"
       /\ _inv = out.val
       /\ issued <= 1

\* C12: when the transport fails while inv is read, that failure reaches the
\* caller, _inv stays unset, and the read has started a transfer (so does
\* the next read, which finds the cache as empty as this one did).
C12_FailureNotCached ==
    (op = "inv" /\ net = "fail" /\ Supported)
    => /\ ~out.ok /\ out.err = "pycurl.error"
       /\ _inv = PyNone
       /\ issued = 1

\* C13: fetch(vars) for names that are all in the inventory returns a
\* mapping whose keys are exactly the requested names (all names when vars
\* is omitted), having started a range transfer for each of them.
C13_FetchReturnsRequested ==
    (op = "fetch" /\ net = "ok" /\ Supported /\ Requested \subseteq ProviderNames)
    => /\ out.ok /\ out.val.type = "dict"
       /\ {item[1] : item \in out.val.d} = Requested
       /\ issued >= Cardinality(Requested)

\* C14: fetch with a name that is absent from the inventory fails with the
\* unknown-variable error (KeyError) and starts no transfer of the grib
\* file (at most the one of the inventory).
C14_UnknownVariable ==
    (op = "fetch" /\ Supported /\ ~(Requested \subseteq ProviderNames))
    => /\ ~out.ok /\ out.err = "KeyError"
       /\ issued <= 1

\* The url the template gives, with hrs_out zero-filled to 3 digits.
UrlTemplate(ext) ==
    <<"ftp://nomads.ncdc.noaa.gov/GFS/Grid">> \o str(grids[deg]) \o <<"/">>
       \o strftime(asof, "%Y%m") \o <<"/">> \o strftime(asof, "%Y%m%d")
       \o <<"/gfs_">> \o str(grids[deg]) \o <<"_">>
       \o strftime(asof, "%Y%m%d") \o <<"_">> \o strftime(asof, "%H")
       \o <<"00">> \o <<"_">> \o Pad(str(hrs_out), 3) \o <<ext>>

\* C15: for a supported resolution inv_url() and grib_url() succeed and
\* return the string of the template, ending in '.inv' and '.grb2'.
C15_UrlsFollowTemplate ==
    /\ (op = "inv_url" /\ Supported)
          => (out.ok /\ out.val = PyStr(UrlTemplate(".inv")))
    /\ (op = "grib_url" /\ Supported)
          => (out.ok /\ out.val = PyStr(UrlTemplate(".grb2")))

\* C16: grid is 4 for resolution 0.5, 3 for resolution 1.0 and fails with
\* the lookup error (KeyError) for every other resolution.
C16_GridTable ==
    op = "grid"
    => /\ deg = 5 => out = Ret(PyInt(4))
       /\ deg = 10 => out = Ret(PyInt(3))
       /\ deg \notin {5, 10} => (~out.ok /\ out.err = "KeyError")

\* C16 witness: grid has been read on a forecast of resolution 2.0 and
\* raised the lookup error.
C16_Witness ==
    op = "grid" /\ deg = 20 /\ ~out.ok /\ out.err = "KeyError"

====
